---- MODULE Spec2Model ----
(***************************************************************************)
(* The audio materialization pipeline of services/geminiService            *)
(* (src/unnamed/part_001): decodeBase64, decodeAudioData, audioBufferToWav  *)
(* and generateSpeech; then generateImage and generateVideo of the same     *)
(* file, SpeechGenerator (src/unnamed/part_000) and App (src/App.tsx).      *)
(*                                                                          *)
(* Numbers.  An AudioBuffer holds Float32 samples.  A sample is modelled    *)
(* exactly, as the integer numerator n of the fraction n / Den, where       *)
(* Den = 32768 * 2^SubBits.  Every such fraction with |n| <= 2 * Den is a   *)
(* Float32 value, and its products with 0x8000 and 0x7FFF are exact in the  *)
(* doubles JavaScript computes with, so the model's integer arithmetic is   *)
(* the arithmetic of the code.                                              *)
(*                                                                          *)
(* Bytes are integers 0..255; a DataView / ArrayBuffer is a sequence of     *)
(* bytes, byte offset o being element o + 1.                                *)
(***************************************************************************)
EXTENDS Integers, Sequences, FiniteSets, TLC

VARIABLES
    phase,        \* position of the harness / of the request
    buffer,       \* the AudioBuffer handed to audioBufferToWav
    wav,          \* what audioBufferToWav did: [outcome, view]
    data,         \* the Uint8Array handed to decodeAudioData
    numChannels,  \* the numChannels argument of decodeAudioData
    decoded,      \* what decodeAudioData did: [outcome, buffer]
    apiKey,       \* process.env.API_KEY
    requests,     \* generateContent requests sent to the remote service
    base64Audio,  \* the inlineData.data of the response
    audioBytes,   \* what decodeBase64 did: [outcome, bytes]
    promise,      \* the promise generateSpeech returned: [state, value]
    handles,      \* the blobs registered by URL.createObjectURL, in order
    stages,       \* the stages the current call has started, in order
    abandoned,    \* the caller has left the view while the call was pending
    calls,        \* generateSpeech calls made so far
    earlier,      \* the promises of the earlier calls, in order
    pair,         \* two generateSpeech calls in flight: id -> the call's locals
    video,        \* one generateVideo call: its locals and what it has done
    image,        \* one generateImage call
    script,           \* SpeechGenerator state: the text of the textarea
    selectedVoice,    \* SpeechGenerator state: the id of the voice chosen
    isGenerating,     \* SpeechGenerator state
    isSampling,       \* SpeechGenerator state: null or a voice id
    history,          \* SpeechGenerator state: the generated entries
    error,            \* SpeechGenerator state: null or a message
    sampleCall,       \* the generateSpeech call of handleSampleListen
    generateCall,     \* the generateSpeech call of handleGenerate
    isCheckingKey,    \* App state
    isApiKeySelected, \* App state
    mounted,          \* App: the generator views are in the rendered tree
    keyCheck,         \* App: position of checkApiKey
    dialogs,          \* App: openSelectKey calls still pending
    aistudio          \* window.aistudio: the functions it offers

pcmVars == <<phase, buffer, wav, data, numChannels, decoded>>
callVars == <<apiKey, requests, base64Audio, audioBytes, promise, handles>>
callerVars == <<abandoned, calls, earlier>>
speechVars == <<callVars, stages, callerVars>>
serviceVars == <<video, image>>
uiVars ==
    <<script, selectedVoice, isGenerating, isSampling, history, error,
      sampleCall, generateCall>>
appVars == <<isCheckingKey, isApiKeySelected, mounted, keyCheck, dialogs,
             aistudio>>
componentVars == <<pair, serviceVars, uiVars, appVars>>
vars == <<pcmVars, speechVars, componentVars>>

(***************************************************************************)
(* Bounds of the model.                                                     *)
(***************************************************************************)
MaxFrames   == 2   \* frames of a buffer handed directly to audioBufferToWav
MaxChannels == 2   \* channels of a buffer / numChannels of decodeAudioData
MaxCells    == 4   \* frames * channels of a buffer handed to audioBufferToWav
SubBits     == 2   \* sample grid: 2^SubBits sample values per int16 step
MaxBytes    == 6   \* bytes of a raw PCM payload
MaxB64Len   == 4   \* characters of a base64 payload
MaxCalls    == 2   \* generateSpeech calls made one after the other
MaxPolls    == 3   \* polls of a video operation that is not done yet
MaxDialogs  == 2   \* openSelectKey calls pending at once

(***************************************************************************)
(* Program constants.                                                       *)
(***************************************************************************)
NegScale      == 32768   \* 0x8000, the multiplier of negative samples
PosScale      == 32767   \* 0x7FFF, the multiplier of the other samples
PcmScale      == 32768   \* 32768.0, the divisor in decodeAudioData
SpeechRate    == 24000   \* the sample rate generateSpeech passes
HeaderBytes   == 44      \* the 44 of buffer.length * 2 + 44
Fmt16         == 16      \* Subchunk1Size
PcmTag        == 1       \* AudioFormat
BitsPerSample == 16

Pow2(k) == IF k = 0 THEN 1 ELSE 2 ^ k
Den == PcmScale * Pow2(SubBits)

None == [outcome |-> "none"]
Pending == [state |-> "pending"]
NoKey == "<unset>"

\* The variables of generateSpeech, in a run that never calls it.
SpeechIdle ==
    /\ apiKey = NoKey
    /\ requests = 0
    /\ base64Audio = << >>
    /\ audioBytes = None
    /\ promise = Pending
    /\ handles = << >>
    /\ stages = << >>
    /\ abandoned = FALSE
    /\ calls = 0
    /\ earlier = << >>

Null == "<null>"

\* A generateVideo / generateImage call that has not been made.
NoVideoCall ==
    [phase |-> "idle", requests |-> 0, statuses |-> << >>, polls |-> 0,
     operation |-> None, downloads |-> 0, promise |-> Pending]

NoImageCall == [phase |-> "idle", requests |-> 0, promise |-> Pending]

NoSpeechCall == [state |-> "none"]

\* The variables of the components, in a run without them.
PairIdle == pair = << >>

ServicesIdle == video = NoVideoCall /\ image = NoImageCall

UiIdle ==
    /\ script = ""
    /\ selectedVoice = "Zephyr"
    /\ isGenerating = FALSE
    /\ isSampling = Null
    /\ history = << >>
    /\ error = Null
    /\ sampleCall = NoSpeechCall
    /\ generateCall = NoSpeechCall

AppIdle ==
    /\ isCheckingKey = TRUE
    /\ isApiKeySelected = FALSE
    /\ mounted = FALSE
    /\ keyCheck = "idle"
    /\ dialogs = 0
    /\ aistudio = {}

ComponentsIdle == PairIdle /\ ServicesIdle /\ UiIdle /\ AppIdle

(***************************************************************************)
(* Character codes of the four tags (String.prototype.charCodeAt).          *)
(***************************************************************************)
RIFF == <<82, 73, 70, 70>>
WAVE == <<87, 65, 86, 69>>
FMT_ == <<102, 109, 116, 32>>
DATA == <<100, 97, 116, 97>>

(***************************************************************************)
(* DataView writes.  Each returns the view after the write.  The callers    *)
(* test the bounds (a write past the end throws RangeError).                *)
(***************************************************************************)
SetUint8(view, offset, v) == [view EXCEPT ![offset + 1] = v % 256]

SetUint16(view, offset, v) ==
    LET u == v % 65536
    IN  [view EXCEPT ![offset + 1] = u % 256, ![offset + 2] = u \div 256]

\* setUint32 reduces its value modulo 2^32; every value written here is
\* non-negative and below 2^31, where the reduction changes nothing.
SetUint32(view, offset, v) ==
    LET u == v
    IN  [view EXCEPT ![offset + 1] = u % 256,
                     ![offset + 2] = (u \div 256) % 256,
                     ![offset + 3] = (u \div 65536) % 256,
                     ![offset + 4] = u \div 16777216]

\* The integer part of |sample / Den * scale|, for a sample numerator and a
\* scale below 2^16.  With Den = PcmScale * 2^SubBits the quotient is taken in
\* two steps, so that no intermediate value leaves the 32-bit integers of
\* TLC; the result is exact.
FloorScaled(m, scale) ==
    LET p == Pow2(SubBits)
    IN  ((m \div p) * scale + ((m % p) * scale) \div p) \div PcmScale

\* ToInt16 of the number sample / Den * scale: truncate toward zero (ToNumber,
\* then the integer part), then reduce modulo 2^16.  The result is the
\* unsigned 16-bit pattern that is stored.
TruncScaled(sample, scale) ==
    IF sample >= 0 THEN FloorScaled(sample, scale)
    ELSE -FloorScaled(-sample, scale)

ToInt16Bits(sample, scale) == TruncScaled(sample, scale) % 65536

\* view.setInt16(offset, sample / Den * scale, true)
SetInt16BE(view, offset, sample, scale) ==
    LET u == ToInt16Bits(sample, scale)
    IN  [view EXCEPT ![offset + 1] = u \div 256, ![offset + 2] = u % 256]

SetInt16(view, offset, sample, scale) ==
    LET u == ToInt16Bits(sample, scale)
    IN  [view EXCEPT ![offset + 1] = u % 256, ![offset + 2] = u \div 256]

\* writeString(s) at the running offset
RECURSIVE WriteString(_, _, _)
WriteString(view, offset, s) ==
    IF s = << >> THEN view
    ELSE WriteString(SetUint8(view, offset, Head(s)), offset + 1, Tail(s))

(***************************************************************************)
(* DataView reads, used to state the claims.                                *)
(***************************************************************************)
U16(view, offset) == view[offset + 1] + 256 * view[offset + 2]

U32(view, offset) ==
    view[offset + 1] + 256 * view[offset + 2]
        + 65536 * view[offset + 3] + 16777216 * view[offset + 4]

I16(view, offset) ==
    LET u == U16(view, offset) IN IF u >= 32768 THEN u - 65536 ELSE u

Bytes(view, offset, n) == [k \in 1..n |-> view[offset + k]]

(***************************************************************************)
(* audioBufferToWav                                                         *)
(***************************************************************************)
\* const length = buffer.length * 2 + 44
WavLength(buf) == buf.length * 2 + HeaderBytes

\* view.setUint32(offset, length - 8, true)
ChunkSizeWhole(length) == length

ChunkSize(length) == length - 8

\* view.setUint32(offset, length - offset - 4, true)
Subchunk2SizeNoField(length, offset) == length - offset

Subchunk2Size(length, offset) == length - offset - 4

\* view.setUint32(offset, sampleRate * channels * 2, true)
ByteRateOneByte(sampleRate, channels) == sampleRate * channels

ByteRate(sampleRate, channels) == sampleRate * channels * 2

\* view.setUint16(offset, channels * 2, true)
BlockAlign(channels) == channels * 2

\* sample = Math.max(-1, Math.min(1, sample))
Max(a, b) == IF a >= b THEN a ELSE b
Min(a, b) == IF a <= b THEN a ELSE b

Unclamped(sample) == sample

Clamp(sample) == Max(-Den, Min(Den, sample))

\* sample < 0 ? sample * 0x8000 : sample * 0x7FFF: the multiplier chosen
SymmetricMultiplier(sample) == NegScale

Multiplier(sample) == IF sample < 0 THEN NegScale ELSE PosScale

\* The header, lines 115-127: the view and the offset after each write.
WriteHeader(view, length, channels, sampleRate) ==
    LET v1  == WriteString(view, 0, RIFF)
        v2  == SetUint32(v1, 4, ChunkSize(length))
        v3  == WriteString(v2, 8, WAVE)
        v4  == WriteString(v3, 12, FMT_)
        v5  == SetUint32(v4, 16, Fmt16)
        v6  == SetUint16(v5, 20, PcmTag)
        v7  == SetUint16(v6, 22, channels)
        v8  == SetUint32(v7, 24, sampleRate)
        v9  == SetUint32(v8, 28, ByteRate(sampleRate, channels))
        v10 == SetUint16(v9, 32, BlockAlign(channels))
        v11 == SetUint16(v10, 34, BitsPerSample)
        v12 == WriteString(v11, 36, DATA)
    IN  SetUint32(v12, 40, Subchunk2Size(length, 40))

\* The sample loop, lines 129-136.  k counts the writes done: write k is
\* frame k \div channels, channel k % channels.  A setInt16 that does not
\* fit in the view throws RangeError and ends the call.
RECURSIVE WriteSamples(_, _, _, _)
WriteSamples(buf, view, offset, k) ==
    IF k = buf.length * buf.numberOfChannels
    THEN [outcome |-> "returned", view |-> view]
    ELSE IF offset + 2 > Len(view)
    THEN [outcome |-> "RangeError", view |-> view]
    ELSE LET i       == k \div buf.numberOfChannels
             channel == k % buf.numberOfChannels
             sample  == Clamp(buf.channelData[channel + 1][i + 1])
         IN  WriteSamples(buf,
                          SetInt16(view, offset, sample, Multiplier(sample)),
                          offset + 2, k + 1)

AudioBufferToWav(buf) ==
    LET length == WavLength(buf)
        view   == [k \in 1..length |-> 0]
    IN  WriteSamples(buf,
                     WriteHeader(view, length, buf.numberOfChannels,
                                 buf.sampleRate),
                     HeaderBytes, 0)

(***************************************************************************)
(* The buffers handed to audioBufferToWav directly.                         *)
(***************************************************************************)
\* Sample values: below -1, -1, a small negative fraction, 0, just under 1,
\* 1, above 1.
SampleNums ==
    {-(Den + Den \div 2), -Den, -3, 0, Den - 1, Den, Den + Den \div 2}

SampleRates == {SpeechRate, 44100}

Buffers ==
    UNION { UNION { { [numberOfChannels |-> c, length |-> f,
                       sampleRate |-> r, channelData |-> cd] :
                      r \in SampleRates,
                      cd \in [1..c -> [1..f -> SampleNums]] } :
                    f \in {g \in 0..MaxFrames : g * c <= MaxCells} } :
            c \in 1..MaxChannels }

InitWav ==
    /\ phase = "buffer"
    /\ buffer \in Buffers
    /\ wav = None
    /\ data = << >>
    /\ numChannels = 1
    /\ decoded = None
    /\ SpeechIdle
    /\ ComponentsIdle

\* One call audioBufferToWav(buffer).
Encode ==
    /\ phase = "buffer"
    /\ wav' = AudioBufferToWav(buffer)
    /\ phase' = "encoded"
    /\ UNCHANGED <<buffer, data, numChannels, decoded, speechVars>>
    /\ UNCHANGED componentVars

NextWav == Encode

SpecWav == InitWav /\ [][NextWav]_vars

(***************************************************************************)
(* decodeAudioData                                                          *)
(***************************************************************************)
\* new Int16Array(data.buffer): the bytes taken two by two, the low byte
\* first (typed arrays use the byte order of the platform, little-endian on
\* every platform a browser runs on), as signed 16-bit integers.  The caller
\* tests that the byte length is even (else the constructor throws).
Int16ArrayOf(bytes) ==
    [j \in 1..(Len(bytes) \div 2) |-> I16(bytes, 2 * (j - 1))]

\* ctx.createBuffer(numChannels, frameCount, sampleRate) takes its length as a
\* WebIDL unsigned long: the quotient dataInt16.length / numChannels loses
\* its fraction.
BufferFrames(samples, channels) == samples \div channels

\* dataInt16[i * numChannels + channel] / 32768.0, as a numerator over Den.
\* Only i < buffer.length is stored: a Float32Array drops a write past its
\* end.
NormalizedUnsigned(s) == (s % 65536) * Pow2(SubBits)

Normalized(s) == s * Pow2(SubBits)

\* createBuffer throws NotSupportedError when an argument is zero, negative
\* or outside its nominal range (Web Audio API, BaseAudioContext.createBuffer),
\* so a buffer of zero frames is never created.
DecodeAudioData(bytes, sampleRate, channels) ==
    IF Len(bytes) % 2 # 0
    THEN [outcome |-> "RangeError"]
    ELSE LET dataInt16 == Int16ArrayOf(bytes)
             frames    == BufferFrames(Len(dataInt16), channels)
         IN  IF frames = 0
             THEN [outcome |-> "NotSupportedError"]
             ELSE [outcome |-> "returned",
                   buffer  |->
                       [numberOfChannels |-> channels,
                        length           |-> frames,
                        sampleRate       |-> sampleRate,
                        channelData      |->
                            [channel \in 1..channels |->
                                [i \in 1..frames |->
                                    Normalized(dataInt16[(i - 1) * channels
                                                             + channel])]]]]

(***************************************************************************)
(* Raw PCM payloads handed to decodeAudioData, then to audioBufferToWav.    *)
(***************************************************************************)
ByteVals == {0, 127, 128, 255}

RawPayloads == UNION { [1..n -> ByteVals] : n \in 0..MaxBytes }

InitPcm ==
    /\ phase = "raw"
    /\ data \in RawPayloads
    /\ numChannels \in 1..MaxChannels
    /\ decoded = None
    /\ buffer = None
    /\ wav = None
    /\ SpeechIdle
    /\ ComponentsIdle

\* One call decodeAudioData(data, ctx, 24000, numChannels); the buffer it
\* returns is the one handed on to audioBufferToWav.
Decode ==
    /\ phase = "raw"
    /\ decoded' = DecodeAudioData(data, SpeechRate, numChannels)
    /\ IF decoded'.outcome = "returned"
       THEN phase' = "buffer" /\ buffer' = decoded'.buffer
       ELSE phase' = "failed" /\ buffer' = buffer
    /\ UNCHANGED <<wav, data, numChannels, speechVars>>
    /\ UNCHANGED componentVars

NextPcm == Decode \/ Encode

SpecPcm == InitPcm /\ [][NextPcm]_vars

(***************************************************************************)
(* decodeBase64                                                             *)
(*                                                                          *)
(* A string is a sequence of one-character strings.  atob is the platform's *)
(* forgiving-base64 decode (HTML, "forgiving-base64 decode"): it removes    *)
(* ASCII whitespace; if the length is then a multiple of 4 it removes one   *)
(* or two trailing "="; it fails if the length is then 1 modulo 4 or if a   *)
(* character is not in the alphabet; it decodes 6 bits per character and    *)
(* drops the 2 or 4 bits left over.                                         *)
(***************************************************************************)
B64Alphabet ==
    << "A", "B", "C", "D", "E", "F", "G", "H", "I", "J", "K", "L", "M",
       "N", "O", "P", "Q", "R", "S", "T", "U", "V", "W", "X", "Y", "Z",
       "a", "b", "c", "d", "e", "f", "g", "h", "i", "j", "k", "l", "m",
       "n", "o", "p", "q", "r", "s", "t", "u", "v", "w", "x", "y", "z",
       "0", "1", "2", "3", "4", "5", "6", "7", "8", "9", "+", "/" >>

B64Set == { B64Alphabet[i] : i \in 1..64 }

B64Index(c) == (CHOOSE i \in 1..64 : B64Alphabet[i] = c) - 1

AsciiWhitespace == {" ", "\t", "\n", "\f", "\r"}

StripWhitespace(str) ==
    LET NotSpace(c) == c \notin AsciiWhitespace IN SelectSeq(str, NotSpace)

StripPadding(str) ==
    LET n == Len(str)
    IN  IF n % 4 # 0 \/ n = 0 THEN str
        ELSE IF str[n] = "=" /\ str[n - 1] = "=" THEN SubSeq(str, 1, n - 2)
        ELSE IF str[n] = "=" THEN SubSeq(str, 1, n - 1)
        ELSE str

\* The bytes of a string of alphabet characters whose length is not 1 mod 4.
RECURSIVE B64Bytes(_)
B64Bytes(str) ==
    LET n == Len(str)
        a == B64Index(str[1])
        b == B64Index(str[2])
        c == B64Index(str[3])
        d == B64Index(str[4])
    IN  IF n = 0 THEN << >>
        ELSE IF n = 2 THEN << a * 4 + b \div 16 >>
        ELSE IF n = 3
        THEN << a * 4 + b \div 16, (b % 16) * 16 + c \div 4 >>
        ELSE << a * 4 + b \div 16, (b % 16) * 16 + c \div 4,
                (c % 4) * 64 + d >> \o B64Bytes(SubSeq(str, 5, n))

\* atob(base64): the binary string, as its character codes, or the
\* InvalidCharacterError it throws.
AtobLenient(base64) ==
    LET InAlphabet(c) == c \in B64Set
        str == SelectSeq(base64, InAlphabet)
        n   == IF Len(str) % 4 = 1 THEN Len(str) - 1 ELSE Len(str)
    IN  [outcome |-> "returned", bytes |-> B64Bytes(SubSeq(str, 1, n))]

Atob(base64) ==
    LET str == StripPadding(StripWhitespace(base64))
    IN  IF Len(str) % 4 = 1 \/ \E i \in 1..Len(str) : str[i] \notin B64Set
        THEN [outcome |-> "InvalidCharacterError"]
        ELSE [outcome |-> "returned", bytes |-> B64Bytes(str)]

\* bytes[i] = binaryString.charCodeAt(i) copies the codes, all below 256.
DecodeBase64(base64) == Atob(base64)

(***************************************************************************)
(* generateSpeech: one request.                                             *)
(***************************************************************************)
\* process.env.API_KEY: unset, or a string.  PlaceholderKeys are the strings
\* of the model that include "UNUSED_PLACEHOLDER".
PlaceholderKeys == {"UNUSED_PLACEHOLDER", "xx-UNUSED_PLACEHOLDER-xx"}

ApiKeys == {NoKey, "", "undefined", "AIza-key"} \cup PlaceholderKeys

IsInvalidKeyLoose(key) == key = NoKey \/ key = ""

IsInvalidKey(key) ==
    \/ key = NoKey
    \/ key = ""
    \/ key \in PlaceholderKeys
    \/ key = "undefined"

\* response.candidates?.[0]?.content?.parts?.[0]?.inlineData?.data: absent,
\* or a string over these characters.
Missing == <<"<undefined>">>

B64Chars == {"A", "8", "/", "=", "!", " "}

Base64Strings == UNION { [1..n -> B64Chars] : n \in 0..MaxB64Len }

Reject(err) == [state |-> "rejected", value |-> err]

\* The stages of one call, in the order of lines 68-98.
Pipeline ==
    << "request", "decodeBase64", "decodeAudioData", "render", "rendered",
       "encode", "issue" >>

InFlight == {"awaitResponse", "awaitDecoded", "rendering"}

\* The call has ended: its promise is settled, or will never be.
Ended == {"settled", "renderRejected", "encodeThrew"}

InitSpeech ==
    /\ phase = "call"
    /\ apiKey \in ApiKeys
    /\ requests = 0
    /\ base64Audio = << >>
    /\ audioBytes = None
    /\ data = << >>
    /\ numChannels = 1
    /\ decoded = None
    /\ buffer = None
    /\ wav = None
    /\ promise = Pending
    /\ handles = << >>
    /\ stages = << >>
    /\ abandoned = FALSE
    /\ calls = 1
    /\ earlier = << >>
    /\ ComponentsIdle

\* Lines 66-79: getAIClient throws on an invalid key, else the request is
\* sent and the function waits for the response.
CallGenerateSpeech ==
    /\ phase = "call"
    /\ IF IsInvalidKey(apiKey)
       THEN /\ promise' = Reject("InvalidKey")
            /\ phase' = "settled"
            /\ UNCHANGED <<requests, stages>>
       ELSE /\ requests' = requests + 1
            /\ stages' = Append(stages, "request")
            /\ phase' = "awaitResponse"
            /\ UNCHANGED promise
    /\ UNCHANGED <<buffer, wav, data, numChannels, decoded>>
    /\ UNCHANGED <<apiKey, base64Audio, audioBytes, handles, callerVars>>
    /\ UNCHANGED componentVars

\* The remote request fails: the await of line 68 throws.
RemoteFailsRetry ==
    /\ phase = "awaitResponse"
    /\ IF requests < 2
       THEN /\ requests' = requests + 1
            /\ stages' = Append(stages, "request")
            /\ UNCHANGED <<phase, promise>>
       ELSE /\ promise' = Reject("RemoteError")
            /\ phase' = "settled"
            /\ UNCHANGED <<requests, stages>>
    /\ UNCHANGED <<buffer, wav, data, numChannels, decoded>>
    /\ UNCHANGED <<apiKey, base64Audio, audioBytes, handles, callerVars>>
    /\ UNCHANGED componentVars

RemoteFails ==
    /\ phase = "awaitResponse"
    /\ promise' = Reject("RemoteError")
    /\ phase' = "settled"
    /\ UNCHANGED <<buffer, wav, data, numChannels, decoded>>
    /\ UNCHANGED <<apiKey, requests, base64Audio, audioBytes, handles>>
    /\ UNCHANGED <<stages, callerVars>>
    /\ UNCHANGED componentVars

\* Lines 81-86, up to the await: the payload is taken from the response,
\* decodeBase64 runs and decodeAudioData is called with 24000 Hz, 1 channel.
\* decodeAudioData is async: what it throws reaches generateSpeech when the
\* await resumes.
ResponseArrives(p) ==
    /\ phase = "awaitResponse"
    /\ base64Audio' = p
    /\ IF p = Missing \/ p = << >>
       THEN /\ promise' = Reject("NoAudio")
            /\ phase' = "settled"
            /\ UNCHANGED <<audioBytes, data, decoded, stages>>
       ELSE LET bytes == DecodeBase64(p)
            IN  /\ audioBytes' = bytes
                /\ IF bytes.outcome # "returned"
                   THEN /\ promise' = Reject(bytes.outcome)
                        /\ phase' = "settled"
                        /\ stages' = Append(stages, "decodeBase64")
                        /\ UNCHANGED <<data, decoded>>
                   ELSE /\ data' = bytes.bytes
                        /\ decoded' = DecodeAudioData(bytes.bytes, SpeechRate, 1)
                        /\ stages' = stages
                                       \o <<"decodeBase64", "decodeAudioData">>
                        /\ phase' = "awaitDecoded"
                        /\ UNCHANGED promise
    /\ UNCHANGED <<buffer, wav, numChannels, apiKey, requests, handles>>
    /\ UNCHANGED callerVars
    /\ UNCHANGED componentVars

\* Lines 86-95: the await resumes; on success the buffer becomes the source
\* of an OfflineAudioContext(1, audioBuffer.length, 24000) and rendering
\* starts.
ResumeAfterDecodeEncodeFirst ==
    /\ phase = "awaitDecoded"
    /\ IF decoded.outcome # "returned"
       THEN /\ promise' = Reject(decoded.outcome)
            /\ phase' = "settled"
            /\ UNCHANGED <<buffer, wav, stages>>
       ELSE /\ buffer' = decoded.buffer
            /\ wav' = AudioBufferToWav(decoded.buffer)
            /\ stages' = stages \o <<"encode", "render">>
            /\ phase' = "rendering"
            /\ UNCHANGED promise
    /\ UNCHANGED <<data, numChannels, decoded>>
    /\ UNCHANGED <<apiKey, requests, base64Audio, audioBytes, handles>>
    /\ UNCHANGED callerVars
    /\ UNCHANGED componentVars

ResumeAfterDecode ==
    /\ phase = "awaitDecoded"
    /\ IF decoded.outcome # "returned"
       THEN /\ promise' = Reject(decoded.outcome)
            /\ phase' = "settled"
            /\ UNCHANGED <<buffer, stages>>
       ELSE /\ buffer' = decoded.buffer
            /\ stages' = Append(stages, "render")
            /\ phase' = "rendering"
            /\ UNCHANGED promise
    /\ UNCHANGED <<wav, data, numChannels, decoded>>
    /\ UNCHANGED <<apiKey, requests, base64Audio, audioBytes, handles>>
    /\ UNCHANGED callerVars
    /\ UNCHANGED componentVars

\* The buffer startRendering resolves with: the OfflineAudioContext of line
\* 89 has 1 channel, audioBuffer.length frames and 24000 Hz, and its only
\* source plays the mono audioBuffer, of the same rate, from frame 0.
RenderedAtDeviceRate(buf) ==
    [numberOfChannels |-> 1,
     length           |-> buf.length,
     sampleRate       |-> 44100,
     channelData      |-> <<buf.channelData[1]>>]

Rendered(buf) ==
    [numberOfChannels |-> 1,
     length           |-> buf.length,
     sampleRate       |-> SpeechRate,
     channelData      |-> <<buf.channelData[1]>>]

\* URL.createObjectURL(blob) registers the blob under a URL of its own; the
\* URL is modelled as the position of the blob in the registry.
IssueHandleDeduped(registry, blob) ==
    IF \E i \in 1..Len(registry) : registry[i] = blob
    THEN registry
    ELSE Append(registry, blob)

IssueHandle(registry, blob) == Append(registry, blob)

\* Lines 95-99: rendering resolves; the callback encodes the rendered buffer,
\* wraps the bytes in a Blob of type audio/wav, registers it and resolves the
\* promise with the URL.  The callback has no way to reject the promise: if
\* the encoder throws, the promise stays pending.
RenderResolves ==
    /\ phase = "rendering"
    /\ wav' = AudioBufferToWav(Rendered(buffer))
    /\ IF wav'.outcome = "returned"
       THEN /\ handles' = IssueHandle(handles,
                              [type |-> "audio/wav", bytes |-> wav'.view])
            /\ promise' = [state |-> "resolved", value |-> Len(handles')]
            /\ stages' = stages \o <<"rendered", "encode", "issue">>
            /\ phase' = "settled"
       ELSE /\ phase' = "encodeThrew"
            /\ stages' = stages \o <<"rendered", "encode">>
            /\ UNCHANGED <<handles, promise>>
    /\ UNCHANGED <<buffer, data, numChannels, decoded>>
    /\ UNCHANGED <<apiKey, requests, base64Audio, audioBytes, callerVars>>
    /\ UNCHANGED componentVars

\* Line 95: rendering rejects; nothing handles the rejection and the promise
\* stays pending.
RenderRejectsFallback ==
    /\ phase = "rendering"
    /\ phase' = "renderRejected"
    /\ handles' = IssueHandle(handles, [type |-> "audio/wav", bytes |-> << >>])
    /\ promise' = [state |-> "resolved", value |-> Len(handles')]
    /\ UNCHANGED <<buffer, wav, data, numChannels, decoded>>
    /\ UNCHANGED <<apiKey, requests, base64Audio, audioBytes>>
    /\ UNCHANGED <<stages, callerVars>>
    /\ UNCHANGED componentVars

RenderRejects ==
    /\ phase = "rendering"
    /\ phase' = "renderRejected"
    /\ UNCHANGED <<buffer, wav, data, numChannels, decoded, speechVars>>
    /\ UNCHANGED componentVars

\* The caller gives the request up while it is pending: SpeechGenerator is
\* unmounted (App renders it only while activeView is SPEECH).  Nothing tells
\* generateSpeech, which takes no cancellation signal.
Abandon ==
    /\ phase \in InFlight
    /\ ~abandoned
    /\ abandoned' = TRUE
    /\ UNCHANGED <<pcmVars, callVars, stages, calls, earlier>>
    /\ UNCHANGED componentVars

NextSpeech ==
    \/ CallGenerateSpeech
    \/ RemoteFails
    \/ \E p \in Base64Strings \cup {Missing} : ResponseArrives(p)
    \/ ResumeAfterDecode
    \/ RenderResolves
    \/ RenderRejects
    \/ Abandon

SpecSpeech == InitSpeech /\ [][NextSpeech]_vars

(***************************************************************************)
(* generateSpeech called again after a call has ended: the registry of      *)
(* URL.createObjectURL and the promises already returned stay.              *)
(***************************************************************************)
CallPayloads ==
    { Missing, <<"A", "A", "A">>, <<"/", "A", "A">>, <<"A", "A", "A", "=">>,
      <<"!", "!", "!", "!">> }

CallAgain ==
    /\ phase \in Ended
    /\ calls < MaxCalls
    /\ calls' = calls + 1
    /\ earlier' = Append(earlier, promise)
    /\ phase' = "call"
    /\ requests' = 0
    /\ base64Audio' = << >>
    /\ audioBytes' = None
    /\ data' = << >>
    /\ decoded' = None
    /\ buffer' = None
    /\ wav' = None
    /\ promise' = Pending
    /\ stages' = << >>
    /\ UNCHANGED <<numChannels, apiKey, handles, abandoned>>
    /\ UNCHANGED componentVars

NextCalls ==
    \/ CallGenerateSpeech
    \/ RemoteFails
    \/ \E p \in CallPayloads : ResponseArrives(p)
    \/ ResumeAfterDecode
    \/ RenderResolves
    \/ RenderRejects
    \/ CallAgain

SpecCalls == InitSpeech /\ [][NextCalls]_vars

(***************************************************************************)
(* Claims about audioBufferToWav, stated for SpecWav.                       *)
(***************************************************************************)
Called == phase = "encoded"
Returned == Called /\ wav.outcome = "returned"

\* The samples of the buffer in the order of the loop: frame by frame, the
\* channels of a frame in index order.
SampleAt(buf, k) ==
    buf.channelData[(k % buf.numberOfChannels) + 1]
                   [(k \div buf.numberOfChannels) + 1]

Cells(buf) == buf.length * buf.numberOfChannels

InRange(buf) ==
    \A k \in 0..(Cells(buf) - 1) :
        SampleAt(buf, k) >= -Den /\ SampleAt(buf, k) <= Den

\* C1: whatever buffer audioBufferToWav is called with, the Subchunk2Size
\* field it writes at offset 40 equals the number of bytes of the document
\* after offset 44, and the document is 44 + Subchunk2Size bytes long.
C1_HeaderConsistent ==
    Called =>
        /\ U32(wav.view, 40) = Len(wav.view) - HeaderBytes
        /\ Len(wav.view) = HeaderBytes + U32(wav.view, 40)

C1_Witness ==
    /\ Returned
    /\ buffer.length = 2
    /\ U32(wav.view, 40) = 4
    /\ Len(wav.view) = 48

\* C2 (as claimed): for every buffer, also one with more than one channel,
\* audioBufferToWav completes, declares dataSize = frameCount * NumChannels
\* * 2 and ChunkSize = 36 + dataSize, and dataSize bytes follow the header.
C2_CompletesWithDataSize ==
    Called =>
        /\ wav.outcome = "returned"
        /\ U32(wav.view, 40) = Cells(buffer) * 2
        /\ U32(wav.view, 4) = 36 + Cells(buffer) * 2
        /\ Len(wav.view) - HeaderBytes = Cells(buffer) * 2

\* Math.round(sample / Den * scale): the nearest integer, a half going up.
ScaledRem(m, scale) ==
    LET p == Pow2(SubBits)
        y == (m \div p) * scale + ((m % p) * scale) \div p
    IN  ((y % PcmScale) * p) + (((m % p) * scale) % p)

RoundScaled(sample, scale) ==
    IF sample >= 0
    THEN FloorScaled(sample, scale)
             + (IF 2 * ScaledRem(sample, scale) >= Den THEN 1 ELSE 0)
    ELSE -(FloorScaled(-sample, scale)
             + (IF 2 * ScaledRem(-sample, scale) > Den THEN 1 ELSE 0))

\* C3 (as claimed): a sample x in [-1, 1] is stored as the 16-bit integer
\* round(x * 32768) when x < 0 and round(x * 32767) when x >= 0, rounded to
\* the nearest integer and not truncated.
C3_StoredRounded ==
    Returned =>
        \A k \in 0..(Cells(buffer) - 1) :
            LET x == SampleAt(buffer, k)
            IN  (x >= -Den /\ x <= Den) =>
                    I16(wav.view, HeaderBytes + 2 * k)
                        = RoundScaled(x, IF x < 0 THEN NegScale ELSE PosScale)

\* The error of reading sample k back, in units of 1 / Den: the int16 s at
\* 44 + 2k is read back as s / 32768 = s * 2^SubBits / Den.
Abs(a) == IF a < 0 THEN -a ELSE a

ReadBackError(k) ==
    Abs(I16(wav.view, HeaderBytes + 2 * k) * Pow2(SubBits)
            - SampleAt(buffer, k))

C6_HeaderFields ==
    Called =>
        /\ Bytes(wav.view, 0, 4) = RIFF
        /\ Bytes(wav.view, 8, 4) = WAVE
        /\ Bytes(wav.view, 12, 4) = FMT_
        /\ U32(wav.view, 16) = 16
        /\ U16(wav.view, 20) = 1
        /\ U16(wav.view, 22) = buffer.numberOfChannels
        /\ U32(wav.view, 24) = buffer.sampleRate
        /\ U32(wav.view, 28) = buffer.sampleRate * buffer.numberOfChannels * 2
        /\ U16(wav.view, 32) = buffer.numberOfChannels * 2
        /\ U16(wav.view, 34) = 16
        /\ Bytes(wav.view, 36, 4) = DATA

C6_Witness ==
    /\ Returned
    /\ buffer.numberOfChannels = 1
    /\ buffer.length = 1
    /\ buffer.sampleRate = 44100
    /\ U32(wav.view, 28) = 88200

\* C10: a buffer of zero frames gives a document of exactly 44 bytes whose
\* Subchunk2Size is 0 and whose ChunkSize is 36.
C10_EmptyBuffer ==
    (Called /\ buffer.length = 0) =>
        /\ wav.outcome = "returned"
        /\ Len(wav.view) = 44
        /\ U32(wav.view, 40) = 0
        /\ U32(wav.view, 4) = 36

C10_Witness ==
    /\ Returned
    /\ buffer.length = 0
    /\ buffer.numberOfChannels = 2
    /\ Len(wav.view) = 44

(***************************************************************************)
(* Claims about decodeAudioData, stated for SpecPcm.                        *)
(***************************************************************************)
DecodeCalled == decoded.outcome # "none"

Scenario == data = <<255, 127, 0, 128>> /\ numChannels = 1

\* C5 (as claimed): the raw bytes FF 7F 00 80 (32767 and -32768), at 24000 Hz
\* and one channel, go through decodeAudioData and audioBufferToWav to a
\* 48-byte document with Subchunk2Size = 4 whose data bytes are the four
\* input bytes.
C5_ScenarioExact ==
    (Scenario /\ Called) =>
        /\ wav.outcome = "returned"
        /\ Len(wav.view) = 48
        /\ U32(wav.view, 40) = 4
        /\ Bytes(wav.view, HeaderBytes, 4) = data

\* C5 (amended): the raw bytes FF 7F 00 80, at 24000 Hz and one channel, go
\* through decodeAudioData and audioBufferToWav to a 48-byte document with
\* Subchunk2Size = 4 whose data bytes are FE 7F 00 80: -32768 is stored
\* unchanged and 32767 is stored as 32766.
C5_ScenarioOffByOne ==
    (Scenario /\ Called) =>
        /\ wav.outcome = "returned"
        /\ Len(wav.view) = 48
        /\ U32(wav.view, 40) = 4
        /\ Bytes(wav.view, HeaderBytes, 4) = <<254, 127, 0, 128>>

C5_Witness ==
    /\ Scenario
    /\ Returned
    /\ buffer.channelData = <<<<32767 * Pow2(SubBits), -Den>>>>
    /\ I16(wav.view, 44) = 32766
    /\ I16(wav.view, 46) = -32768

\* C7 (as claimed): decodeAudioData fails with an error whenever the byte
\* length is not a multiple of channelCount * 2; it never rounds the frame
\* count down and drops the trailing bytes.
C7_MisalignedFails ==
    (DecodeCalled /\ Len(data) % (numChannels * 2) # 0) =>
        decoded.outcome # "returned"

\* C8 (as claimed): for a byte sequence whose length is a multiple of
\* channelCount * 2, decodeAudioData returns a buffer of byteLength /
\* (channelCount * 2) frames in which the sample of frame f, channel c is
\* s / 32768, s being the signed little-endian int16 at byte offset
\* (f * channelCount + c) * 2; every value lies in [-1, 1].
C8_AlignedDecodes ==
    (DecodeCalled /\ Len(data) % (numChannels * 2) = 0) =>
        /\ decoded.outcome = "returned"
        /\ decoded.buffer.numberOfChannels = numChannels
        /\ decoded.buffer.length * numChannels * 2 = Len(data)
        /\ \A f \in 0..(decoded.buffer.length - 1), c \in 0..(numChannels - 1) :
               LET x == decoded.buffer.channelData[c + 1][f + 1]
               IN  /\ x = I16(data, (f * numChannels + c) * 2) * Pow2(SubBits)
                   /\ x >= -Den
                   /\ x <= Den

(***************************************************************************)
(* Claims about decodeBase64 in generateSpeech, stated for SpecSpeech.      *)
(***************************************************************************)
Base64Called == audioBytes.outcome # "none"

\* No output of the request: no bytes, no buffer, no document, no handle.
NoOutput ==
    /\ audioBytes.outcome # "returned"
    /\ decoded = None
    /\ wav = None
    /\ handles = << >>
    /\ promise.state # "resolved"

Rejected == promise.state = "rejected"

\* An "=" is well placed as the last character, or as one of the last two
\* when both are "=", of a string whose length is a multiple of 4.
WellPlacedPad(str, i) ==
    /\ Len(str) % 4 = 0
    /\ \/ i = Len(str)
       \/ i = Len(str) - 1 /\ str[Len(str)] = "="

PadCount(str) == Cardinality({i \in 1..Len(str) : str[i] = "="})

MalformedPadding(str) ==
    \/ \E i \in 1..Len(str) : str[i] = "=" /\ ~WellPlacedPad(str, i)
    \/ (Len(str) - PadCount(str)) % 4 = 1

OutsideAlphabet(str) ==
    \E i \in 1..Len(str) : str[i] \notin B64Set \cup {"="}

ZeroFramesReceived ==
    \/ base64Audio = << >> /\ promise = Reject("NoAudio")
    \/ audioBytes.outcome = "returned" /\ audioBytes.bytes = << >>

Resolved == promise.state = "resolved"

\* C11 (as claimed): a payload of zero frames, the empty base64 string
\* included, is accepted by generateSpeech, whose call ends resolved with a
\* handle on a silent document.
C11_ZeroFramesAccepted ==
    (ZeroFramesReceived /\ phase \in Ended) =>
        /\ Resolved
        /\ handles # << >>
        /\ Len(handles[Len(handles)].bytes) = HeaderBytes

\* A stage after the await of decodeAudioData has failed: rendering rejected
\* or the encoder threw.
LateFailure == phase \in {"renderRejected", "encodeThrew"}

\* C12 (as claimed): once offline rendering has failed or the encoder has
\* thrown, and no step of the call is left to run, the promise generateSpeech
\* returned is rejected and not pending.
C12_LateFailureRejects ==
    (LateFailure /\ ~ENABLED NextSpeech) => Rejected

IsPrefix(s, t) ==
    /\ Len(s) <= Len(t)
    /\ \A i \in 1..Len(s) : s[i] = t[i]

Started(stage) == \E i \in 1..Len(stages) : stages[i] = stage

\* C13: the stages of a call start in the order request, base64 decode, PCM
\* interpretation, offline rendering, WAV encoding, handle issuance, each at
\* most once; the encoder has run only if rendering had resolved, and a
\* handle exists only if the encoder has returned.
C13_StagesInOrder ==
    /\ IsPrefix(stages, Pipeline)
    /\ (wav # None => Started("rendered"))
    /\ (handles # << >> => (wav.outcome = "returned" /\ Started("encode")))

C13_Witness ==
    /\ stages = Pipeline
    /\ Resolved
    /\ Len(handles) = 1

\* A stage of the call has failed.
Failed == Rejected \/ LateFailure

\* C14: when a stage of the call has failed (no payload, base64 decode, PCM
\* interpretation, rendering, encoding), no handle has been issued and the
\* promise carries no URL, so that no document of the call can be observed.
C14_FailureIssuesNothing ==
    Failed => (handles = << >> /\ ~Resolved)

C14_Witness ==
    /\ phase = "renderRejected"
    /\ buffer # None
    /\ handles = << >>
    /\ promise = Pending

\* C15 (as claimed): when the caller has abandoned the request before
\* rendering completed, no handle is issued for it.
C15_AbandonedIssuesNothing ==
    abandoned => handles = << >>

\* The promises of all the calls made so far, in order.
Outcomes == Append(earlier, promise)

ResolvedCalls == {i \in 1..Len(Outcomes) : Outcomes[i].state = "resolved"}

\* C16: every call that resolves has issued one handle, of type audio/wav,
\* and no other handle exists; the handles of two calls differ, identical
\* payloads included.
C16_OneFreshHandlePerCall ==
    /\ Len(handles) = Cardinality(ResolvedCalls)
    /\ \A i \in 1..Len(handles) : handles[i].type = "audio/wav"
    /\ \A i \in ResolvedCalls : Outcomes[i].value \in 1..Len(handles)
    /\ \A i, j \in ResolvedCalls :
           i # j => Outcomes[i].value # Outcomes[j].value

C16_Witness ==
    /\ Cardinality(ResolvedCalls) = 2
    /\ Len(handles) = 2
    /\ handles[1] = handles[2]

\* C17: a call sends the remote request at most once and starts no stage
\* twice, and its first failure ends it: nothing of the call runs after.
C17_NoRetry ==
    /\ requests <= 1
    /\ \A i, j \in 1..Len(stages) : i # j => stages[i] # stages[j]
    /\ (Failed => ~ENABLED NextSpeech)

C17_Witness ==
    /\ promise = Reject("RemoteError")
    /\ requests = 1
    /\ stages = <<"request">>

(***************************************************************************)
(* audioBufferToWav: where the samples are stored.                           *)
(***************************************************************************)
SampleOffset(buf, f, c) == HeaderBytes + (f * buf.numberOfChannels + c) * 2

Quantized(sample) == TruncScaled(Clamp(sample), Multiplier(Clamp(sample)))

\* C19 (as claimed): after audioBufferToWav has been called, the sample of
\* frame f and channel c is stored, as its 16-bit integer, at byte offset
\* 44 + (f * NumChannels + c) * 2 of the document.
C19_SamplesInterleaved ==
    Called =>
        \A f \in 0..(buffer.length - 1) :
            \A c \in 0..(buffer.numberOfChannels - 1) :
                LET offset == SampleOffset(buffer, f, c)
                IN  /\ offset + 2 <= Len(wav.view)
                    /\ I16(wav.view, offset)
                           = Quantized(buffer.channelData[c + 1][f + 1])

(***************************************************************************)
(* generateSpeech: the format of the documents it produces.                  *)
(***************************************************************************)
\* C20: every document generateSpeech produces is mono at 24000 Hz,
\* whatever the payload: NumChannels 1, SampleRate 24000, ByteRate 48000,
\* BlockAlign 2.
C20_MonoSpeechRate ==
    wav.outcome = "returned" =>
        /\ U16(wav.view, 22) = 1
        /\ U32(wav.view, 24) = SpeechRate
        /\ U32(wav.view, 28) = 2 * SpeechRate
        /\ U16(wav.view, 32) = 2

C20_Witness ==
    /\ Resolved
    /\ buffer.length = 1
    /\ handles[1].bytes = wav.view
    /\ U32(wav.view, 24) = SpeechRate

(***************************************************************************)
(* audioBufferToWav: clamping; decodeAudioData then audioBufferToWav.       *)
(***************************************************************************)
\* Write k of the sample loop has been done: the call wrote the samples in
\* order until the end of the buffer or the end of the view.
Written(k) == HeaderBytes + 2 * k + 2 <= Len(wav.view)

Stored(k) == I16(wav.view, HeaderBytes + 2 * k)

\* C22: audioBufferToWav clamps before it quantizes: a sample above 1 is
\* stored as 32767 and a sample below -1 as -32768, and no stored integer has
\* wrapped around modulo 2^16 (its sign is never opposite to the sample's).
C22_ClampedBeforeQuantizing ==
    Called =>
        \A k \in 0..(Cells(buffer) - 1) :
            Written(k) =>
                LET x == SampleAt(buffer, k)
                IN  /\ (x > Den => Stored(k) = PosScale)
                    /\ (x < -Den => Stored(k) = -NegScale)
                    /\ (x >= 0 => Stored(k) >= 0)
                    /\ (x <= 0 => Stored(k) <= 0)

C22_Witness ==
    /\ Returned
    /\ buffer.numberOfChannels = 1
    /\ buffer.length = 2
    /\ SampleAt(buffer, 0) > Den
    /\ SampleAt(buffer, 1) < -Den
    /\ Stored(0) = PosScale
    /\ Stored(1) = -NegScale

\* C24: a signed 16-bit sample s that goes through decodeAudioData and then
\* audioBufferToWav is stored as s when s <= 0 and as s - 1 when s > 0.
C24_PositiveSamplesDropOne ==
    (Called /\ decoded.outcome = "returned") =>
        \A k \in 0..(Cells(buffer) - 1) :
            Written(k) =>
                LET s == Int16ArrayOf(data)[k + 1]
                IN  Stored(k) = IF s <= 0 THEN s ELSE s - 1

C24_Witness ==
    /\ Returned
    /\ numChannels = 1
    /\ data = <<127, 0, 255, 255>>
    /\ Bytes(wav.view, HeaderBytes, 4) = <<126, 0, 255, 255>>

(***************************************************************************)
(* Two generateSpeech calls in flight at once.  Every name of lines 66-98   *)
(* is a local of the call; the registry of URL.createObjectURL and          *)
(* process.env.API_KEY are the only things the calls have in common.        *)
(***************************************************************************)
RequestIds == {1, 2}

\* The variables of the harnesses and of the single call, in a run without
\* them.
PcmIdle ==
    /\ phase = "idle"
    /\ buffer = None
    /\ wav = None
    /\ data = << >>
    /\ numChannels = 1
    /\ decoded = None

NewRequest ==
    [phase |-> "call", base64Audio |-> << >>, audioBytes |-> None,
     decoded |-> None, buffer |-> None, wav |-> None, promise |-> Pending]

InitPair ==
    /\ PcmIdle
    /\ apiKey \in ApiKeys
    /\ requests = 0
    /\ base64Audio = << >>
    /\ audioBytes = None
    /\ promise = Pending
    /\ handles = << >>
    /\ stages = << >>
    /\ abandoned = FALSE
    /\ calls = 0
    /\ earlier = << >>
    /\ pair = [i \in RequestIds |-> NewRequest]
    /\ ServicesIdle
    /\ UiIdle
    /\ AppIdle

\* What a step of one of the two calls leaves alone.
pairFrame ==
    <<pcmVars, apiKey, base64Audio, audioBytes, promise, stages, callerVars,
      serviceVars, uiVars, appVars>>

\* Lines 66-79 of call i.
PairCall(i) ==
    /\ pair[i].phase = "call"
    /\ IF IsInvalidKey(apiKey)
       THEN /\ pair' = [pair EXCEPT ![i].promise = Reject("InvalidKey"),
                                    ![i].phase = "settled"]
            /\ UNCHANGED requests
       ELSE /\ pair' = [pair EXCEPT ![i].phase = "awaitResponse"]
            /\ requests' = requests + 1
    /\ UNCHANGED <<handles, pairFrame>>

PairRemoteFails(i) ==
    /\ pair[i].phase = "awaitResponse"
    /\ pair' = [pair EXCEPT ![i].promise = Reject("RemoteError"),
                            ![i].phase = "settled"]
    /\ UNCHANGED <<requests, handles, pairFrame>>

\* Lines 81-86 of call i, up to the await.
PairResponseArrives(i, p) ==
    /\ pair[i].phase = "awaitResponse"
    /\ IF p = Missing \/ p = << >>
       THEN pair' = [pair EXCEPT ![i].base64Audio = p,
                                 ![i].promise = Reject("NoAudio"),
                                 ![i].phase = "settled"]
       ELSE LET bytes == DecodeBase64(p)
            IN  IF bytes.outcome # "returned"
                THEN pair' = [pair EXCEPT ![i].base64Audio = p,
                                          ![i].audioBytes = bytes,
                                          ![i].promise = Reject(bytes.outcome),
                                          ![i].phase = "settled"]
                ELSE pair' = [pair EXCEPT
                                 ![i].base64Audio = p,
                                 ![i].audioBytes = bytes,
                                 ![i].decoded =
                                     DecodeAudioData(bytes.bytes, SpeechRate, 1),
                                 ![i].phase = "awaitDecoded"]
    /\ UNCHANGED <<requests, handles, pairFrame>>

\* Lines 86-95 of call i.
PairResumeAfterDecode(i) ==
    /\ pair[i].phase = "awaitDecoded"
    /\ IF pair[i].decoded.outcome # "returned"
       THEN pair' = [pair EXCEPT
                        ![i].promise = Reject(pair[i].decoded.outcome),
                        ![i].phase = "settled"]
       ELSE pair' = [pair EXCEPT ![i].buffer = pair[i].decoded.buffer,
                                 ![i].phase = "rendering"]
    /\ UNCHANGED <<requests, handles, pairFrame>>

\* source.buffer = audioBuffer (line 91): the buffer call i renders is the
\* one its own decodeAudioData returned.
LastDecodedBuffer(i) ==
    IF \E j \in RequestIds : j # i /\ pair[j].buffer # None
    THEN pair[CHOOSE j \in RequestIds : j # i /\ pair[j].buffer # None].buffer
    ELSE pair[i].buffer

SourceBuffer(i) == pair[i].buffer

\* Lines 95-99 of call i.
PairRenderResolves(i) ==
    /\ pair[i].phase = "rendering"
    /\ LET w == AudioBufferToWav(Rendered(SourceBuffer(i)))
       IN  IF w.outcome = "returned"
           THEN /\ handles' = IssueHandle(handles,
                                  [type |-> "audio/wav", bytes |-> w.view])
                /\ pair' = [pair EXCEPT
                               ![i].wav = w,
                               ![i].promise = [state |-> "resolved",
                                               value |-> Len(handles')],
                               ![i].phase = "settled"]
           ELSE /\ pair' = [pair EXCEPT ![i].wav = w,
                                        ![i].phase = "encodeThrew"]
                /\ UNCHANGED handles
    /\ UNCHANGED <<requests, pairFrame>>

PairRenderRejects(i) ==
    /\ pair[i].phase = "rendering"
    /\ pair' = [pair EXCEPT ![i].phase = "renderRejected"]
    /\ UNCHANGED <<requests, handles, pairFrame>>

NextPair ==
    \E i \in RequestIds :
        \/ PairCall(i)
        \/ PairRemoteFails(i)
        \/ \E p \in CallPayloads : PairResponseArrives(i, p)
        \/ PairResumeAfterDecode(i)
        \/ PairRenderResolves(i)
        \/ PairRenderRejects(i)

SpecPair == InitPair /\ [][NextPair]_vars

\* The document generateSpeech produces from payload p when it runs alone
\* and resolves.
DocumentAlone(p) ==
    AudioBufferToWav(
        Rendered(DecodeAudioData(DecodeBase64(p).bytes, SpeechRate, 1).buffer)
    ).view

\* C21: two generateSpeech calls whose steps interleave in any order share no
\* state: a call that resolves does so with a handle of its own, on the
\* document its own payload gives when the call runs alone.
C21_CallsIsolated ==
    \A i \in RequestIds :
        pair[i].promise.state = "resolved" =>
            /\ pair[i].promise.value \in 1..Len(handles)
            /\ handles[pair[i].promise.value].bytes
                   = DocumentAlone(pair[i].base64Audio)
            /\ \A j \in RequestIds \ {i} :
                   pair[j].promise.state = "resolved" =>
                       pair[j].promise.value # pair[i].promise.value

C21_Witness ==
    /\ pair[1].promise.state = "resolved"
    /\ pair[2].promise.state = "resolved"
    /\ pair[1].base64Audio = <<"/", "A", "A">>
    /\ pair[2].base64Audio = <<"A", "A", "A", "=">>
    /\ pair[1].promise.value = 2
    /\ handles[1].bytes # handles[2].bytes

(***************************************************************************)
(* generateVideo and generateImage, one call of each.                       *)
(***************************************************************************)
\* The variables of the single generateSpeech call, in a run without it but
\* with a key in process.env.
SpeechUnused ==
    /\ requests = 0
    /\ base64Audio = << >>
    /\ audioBytes = None
    /\ promise = Pending
    /\ handles = << >>
    /\ stages = << >>
    /\ abandoned = FALSE
    /\ calls = 0
    /\ earlier = << >>

\* The operation as generateVideos / getVideosOperation return it: not done,
\* done with response.generatedVideos[0].video.uri, or done without it (an
\* operation that failed, or whose response is empty).
Operations ==
    { [done |-> FALSE, uri |-> Null],
      [done |-> TRUE,  uri |-> "https://video"],
      [done |-> TRUE,  uri |-> Null] }

\* The arguments of the call: an empty or a given prompt, with or without a
\* start and an end image.
VideoArguments ==
    [prompt : {"", "a prompt"}, startImage : BOOLEAN, endImage : BOOLEAN]

NewVideoCall(arguments) ==
    [phase |-> "call", requests |-> 0, statuses |-> << >>, polls |-> 0,
     operation |-> None, downloads |-> 0, promise |-> Pending,
     arguments |-> arguments, payload |-> None]

\* Lines 191-200: the payload of the generation request.
VideoPayload(arguments) ==
    [prompt    |-> IF arguments.prompt = "" THEN "Cinematic transition"
                   ELSE arguments.prompt,
     image     |-> arguments.startImage,
     lastFrame |-> arguments.endImage]

InitVideo ==
    /\ PcmIdle
    /\ apiKey \in ApiKeys
    /\ SpeechUnused
    /\ PairIdle
    /\ video \in {NewVideoCall(a) : a \in VideoArguments}
    /\ image = NoImageCall
    /\ UiIdle
    /\ AppIdle

\* What a step of generateVideo leaves alone.
videoFrame ==
    <<pcmVars, apiKey, requests, base64Audio, audioBytes, promise, stages,
      callerVars, pair, image, uiVars, appVars>>

\* Lines 189-202: getAIClient, the first status, the generation request.
VideoCall ==
    /\ video.phase = "call"
    /\ IF IsInvalidKey(apiKey)
       THEN video' = [video EXCEPT !.promise = Reject("InvalidKey"),
                                   !.phase = "settled"]
       ELSE video' = [video EXCEPT
                         !.statuses = Append(@, "requesting"),
                         !.payload = VideoPayload(video.arguments),
                         !.requests = @ + 1,
                         !.phase = "awaitOperation"]
    /\ UNCHANGED <<handles, videoFrame>>

\* An await of line 202 or 206 throws.
VideoRemoteFails ==
    /\ video.phase \in {"awaitOperation", "awaitPoll"}
    /\ video' = [video EXCEPT !.promise = Reject("RemoteError"),
                              !.phase = "settled"]
    /\ UNCHANGED <<handles, videoFrame>>

\* Lines 203-204: the test of the loop and the status of its body.
ReportAlways(statuses, operation) == Append(statuses, "rendering")

Report(statuses, operation) ==
    IF operation.done THEN statuses ELSE Append(statuses, "rendering")

\* Lines 202-211: an operation arrives from generateVideos or from
\* getVideosOperation.  When it is not done the loop reports and sleeps;
\* when it is done the loop ends and fetch is called on
\* `${downloadLink}&key=${apiKey}`, whatever downloadLink is.
VideoOperationArrives(op) ==
    /\ video.phase \in {"awaitOperation", "awaitPoll"}
    /\ ~op.done => video.polls < MaxPolls
    /\ video' = [video EXCEPT
                    !.operation = op,
                    !.statuses = Report(@, op),
                    !.downloads = IF op.done THEN @ + 1 ELSE @,
                    !.phase = IF op.done THEN "awaitFetch" ELSE "sleeping"]
    /\ UNCHANGED <<handles, videoFrame>>

\* Lines 205-206: the timer of 10 s fires and the operation is polled.
VideoPoll ==
    /\ video.phase = "sleeping"
    /\ video' = [video EXCEPT !.polls = @ + 1, !.phase = "awaitPoll"]
    /\ UNCHANGED <<handles, videoFrame>>

\* Line 211: fetch resolves with a response, whatever its status.
VideoFetchResolves ==
    /\ video.phase = "awaitFetch"
    /\ video' = [video EXCEPT !.phase = "awaitBlob"]
    /\ UNCHANGED <<handles, videoFrame>>

\* Line 211 or 212: the network fails.
VideoDownloadFails ==
    /\ video.phase \in {"awaitFetch", "awaitBlob"}
    /\ video' = [video EXCEPT !.promise = Reject("NetworkError"),
                              !.phase = "settled"]
    /\ UNCHANGED <<handles, videoFrame>>

\* Lines 212-213: the body is read and registered.
VideoBlobResolves ==
    /\ video.phase = "awaitBlob"
    /\ handles' = IssueHandle(handles,
                      [type |-> "fetched", bytes |-> << >>,
                       link |-> video.operation.uri])
    /\ video' = [video EXCEPT
                    !.promise = [state |-> "resolved", value |-> Len(handles')],
                    !.phase = "settled"]
    /\ UNCHANGED videoFrame

NextVideo ==
    \/ VideoCall
    \/ VideoRemoteFails
    \/ \E op \in Operations : VideoOperationArrives(op)
    \/ VideoPoll
    \/ VideoFetchResolves
    \/ VideoDownloadFails
    \/ VideoBlobResolves

SpecVideo == InitVideo /\ [][NextVideo]_vars

Count(seq, x) == Cardinality({i \in 1..Len(seq) : seq[i] = x})

\* C28: generateVideo reports 'requesting' once, before the generation
\* request is sent, then 'rendering' once before each poll; once the
\* operation is seen done no status is reported, and the 'rendering'
\* statuses are as many as the polls.
C28_StatusOrder ==
    LET st        == video.statuses
        rendering == Count(st, "rendering")
    IN  /\ (st # << >> =>
               /\ st[1] = "requesting"
               /\ \A i \in 2..Len(st) : st[i] = "rendering")
        /\ (video.requests > 0 => st # << >>)
        /\ video.requests <= 1
        /\ (video.phase = "sleeping" => rendering = video.polls + 1)
        /\ (video.phase # "sleeping" => rendering = video.polls)
        /\ (video.operation # None /\ video.operation.done =>
               (rendering = video.polls /\ video.phase # "sleeping"))

C28_Witness ==
    /\ video.statuses = <<"requesting", "rendering", "rendering">>
    /\ video.polls = 2
    /\ video.operation # None
    /\ video.operation.done
    /\ video.promise.state = "resolved"

\* C29 (as claimed): generateVideo issues a handle only when the finished
\* operation carries a video URI; when the operation finishes without one
\* the call rejects, attempts no download and issues no handle.
C29_NoUriNoDownload ==
    (video.operation # None /\ video.operation.done
        /\ video.operation.uri = Null) =>
        /\ video.downloads = 0
        /\ handles = << >>
        /\ (video.phase = "settled" => video.promise.state = "rejected")

(***************************************************************************)
(* generateImage, and the three services called with the same key.          *)
(***************************************************************************)
NewImageCall == [phase |-> "call", requests |-> 0, promise |-> Pending]

\* What a step of generateImage leaves alone.
imageFrame ==
    <<pcmVars, speechVars, pair, video, uiVars, appVars>>

\* Lines 148-174: getAIClient, the parts, the request.
ImageCall ==
    /\ image.phase = "call"
    /\ IF IsInvalidKey(apiKey)
       THEN image' = [image EXCEPT !.promise = Reject("InvalidKey"),
                                   !.phase = "settled"]
       ELSE image' = [image EXCEPT !.requests = @ + 1,
                                   !.phase = "awaitResponse"]
    /\ UNCHANGED imageFrame

\* The await of line 165 throws.
ImageRemoteFails ==
    /\ image.phase = "awaitResponse"
    /\ image' = [image EXCEPT !.promise = Reject("RemoteError"),
                              !.phase = "settled"]
    /\ UNCHANGED imageFrame

\* Lines 176-179: the first part with inlineData gives a data URL; without
\* one the function throws.
ImageResponseArrives(inlineData) ==
    /\ image.phase = "awaitResponse"
    /\ image' = [image EXCEPT
                    !.promise = IF inlineData
                                THEN [state |-> "resolved",
                                      value |-> "data:image/png;base64"]
                                ELSE Reject("NoImage"),
                    !.phase = "settled"]
    /\ UNCHANGED imageFrame

NextImage ==
    \/ ImageCall
    \/ ImageRemoteFails
    \/ \E inlineData \in BOOLEAN : ImageResponseArrives(inlineData)

InitServices ==
    /\ phase = "call"
    /\ buffer = None
    /\ wav = None
    /\ data = << >>
    /\ numChannels = 1
    /\ decoded = None
    /\ apiKey \in ApiKeys
    /\ SpeechUnused
    /\ PairIdle
    /\ video \in {NewVideoCall(a) : a \in VideoArguments}
    /\ image = NewImageCall
    /\ UiIdle
    /\ AppIdle

NextServices ==
    \/ CallGenerateSpeech
    \/ RemoteFails
    \/ \E p \in CallPayloads : ResponseArrives(p)
    \/ ResumeAfterDecode
    \/ RenderResolves
    \/ RenderRejects
    \/ NextVideo
    \/ NextImage

SpecServices == InitServices /\ [][NextServices]_vars

\* The keys the claim names: missing, empty, "undefined", or holding
\* "UNUSED_PLACEHOLDER".
KeyUnusable ==
    apiKey \in {NoKey, "", "undefined", "UNUSED_PLACEHOLDER",
                "xx-UNUSED_PLACEHOLDER-xx"}

\* C23: with an API key that is missing, empty, "undefined" or a
\* placeholder, generateSpeech, generateImage and generateVideo each fail at
\* getAIClient: no remote request is sent, no status is reported and no
\* handle is issued.
C23_UnusableKeyStopsEverything ==
    KeyUnusable =>
        /\ requests = 0
        /\ image.requests = 0
        /\ video.requests = 0
        /\ video.statuses = << >>
        /\ video.downloads = 0
        /\ handles = << >>
        /\ (phase # "call" => promise = Reject("InvalidKey"))
        /\ (image.phase # "call" => image.promise = Reject("InvalidKey"))
        /\ (video.phase # "call" => video.promise = Reject("InvalidKey"))

C23_Witness ==
    /\ apiKey = "xx-UNUSED_PLACEHOLDER-xx"
    /\ promise = Reject("InvalidKey")
    /\ image.promise = Reject("InvalidKey")
    /\ video.promise = Reject("InvalidKey")
    /\ video.statuses = << >>

(***************************************************************************)
(* SpeechGenerator (src/unnamed/part_000): the handlers and the user.       *)
(* generateSpeech is seen from outside: a call is pending, then resolves    *)
(* with a fresh URL or rejects with an error.  calls counts the calls the   *)
(* component has started.                                                   *)
(***************************************************************************)
Voices == {"Zephyr", "Puck"}

\* Texts of the textarea: empty, blank, and one to read.
Scripts == {"", " ", "hello"}

\* script.trim()
Trim(text) == IF text = " " THEN "" ELSE text

\* The message of the error generateSpeech rejects with; it may be empty.
ErrorMessages == {"", "No audio", "Invalid key"}

DefaultError == "speech generation failed"

\* err.message || '...' of line 165.
ErrorTextRaw(message) == message

ErrorText(message) == IF message = "" THEN DefaultError ELSE message

InitStudio ==
    /\ PcmIdle
    /\ apiKey = NoKey
    /\ SpeechUnused
    /\ PairIdle
    /\ ServicesIdle
    /\ UiIdle
    /\ AppIdle

\* What a step of SpeechGenerator leaves alone.
studioFrame ==
    <<pcmVars, apiKey, requests, base64Audio, audioBytes, promise, stages,
      abandoned, earlier, pair, serviceVars, appVars>>

\* onChange of the textarea, line 235.
EditScript(text) ==
    /\ script # text
    /\ script' = text
    /\ UNCHANGED <<selectedVoice, isGenerating, isSampling, history, error,
                   sampleCall, generateCall, calls, handles, studioFrame>>

\* onClick of a voice card, line 186.
SelectVoice(voice) ==
    /\ selectedVoice # voice
    /\ selectedVoice' = voice
    /\ UNCHANGED <<script, isGenerating, isSampling, history, error,
                   sampleCall, generateCall, calls, handles, studioFrame>>

\* The sample button of a voice, enabled while isSampling is null, and lines
\* 135-138 of handleSampleListen, up to the await.
ClickSample(voice) ==
    /\ isSampling = Null
    /\ ~isGenerating
    /\ calls < MaxCalls
    /\ isSampling' = voice
    /\ sampleCall' = [state |-> "pending", voice |-> voice]
    /\ calls' = calls + 1
    /\ UNCHANGED <<script, selectedVoice, isGenerating, history, error,
                   generateCall, handles, studioFrame>>

\* Lines 139-141: the call resolved; the audio element is created, play() is
\* called and onended is set.
SampleResolves ==
    /\ sampleCall.state = "pending"
    /\ handles' = IssueHandle(handles, [type |-> "audio/wav",
                                        voice |-> sampleCall.voice])
    /\ sampleCall' = [sampleCall EXCEPT !.state = "playing"]
    /\ UNCHANGED <<script, selectedVoice, isGenerating, isSampling, history,
                   error, generateCall, calls, studioFrame>>

\* Lines 142-145: the call rejected.
SampleRejects ==
    /\ sampleCall.state = "pending"
    /\ isSampling' = Null
    /\ sampleCall' = [sampleCall EXCEPT !.state = "rejected"]
    /\ UNCHANGED <<script, selectedVoice, isGenerating, history, error,
                   generateCall, calls, handles, studioFrame>>

\* Line 141: the audio plays to its end and onended runs.
PlaybackEnds ==
    /\ sampleCall.state = "playing"
    /\ isSampling' = Null
    /\ sampleCall' = [sampleCall EXCEPT !.state = "ended"]
    /\ UNCHANGED <<script, selectedVoice, isGenerating, history, error,
                   generateCall, calls, handles, studioFrame>>

\* Line 140: the promise audio.play() returned rejects (playback not allowed,
\* or the source cannot be played).  The promise is dropped and no handler
\* is set for the error: ended never fires.
PlaybackFails ==
    /\ sampleCall.state = "playing"
    /\ sampleCall' = [sampleCall EXCEPT !.state = "playFailed"]
    /\ UNCHANGED <<script, selectedVoice, isGenerating, isSampling, history,
                   error, generateCall, calls, handles, studioFrame>>

\* The generate button, enabled while isGenerating is false and script is
\* not blank, and lines 150-155 of handleGenerate, up to the await.
ClickGenerate ==
    /\ ~isGenerating
    /\ Trim(script) # ""
    /\ calls < MaxCalls
    /\ isGenerating' = TRUE
    /\ error' = Null
    /\ generateCall' = [state |-> "pending", text |-> script,
                        voice |-> selectedVoice]
    /\ calls' = calls + 1
    /\ UNCHANGED <<script, selectedVoice, isSampling, history, sampleCall,
                   handles, studioFrame>>

\* Lines 156-163 and 168: the call resolved.
GenerateResolves ==
    /\ generateCall.state = "pending"
    /\ handles' = IssueHandle(handles, [type |-> "audio/wav",
                                        voice |-> generateCall.voice])
    /\ history' = <<[audioUrl |-> Len(handles'),
                     text     |-> generateCall.text,
                     voice    |-> generateCall.voice]>> \o history
    /\ script' = ""
    /\ isGenerating' = FALSE
    /\ generateCall' = [generateCall EXCEPT !.state = "resolved"]
    /\ UNCHANGED <<selectedVoice, isSampling, error, sampleCall, calls,
                   studioFrame>>

\* Lines 164-168: the call rejected.
GenerateRejects(message) ==
    /\ generateCall.state = "pending"
    /\ error' = ErrorText(message)
    /\ isGenerating' = FALSE
    /\ generateCall' = [generateCall EXCEPT !.state = "rejected"]
    /\ UNCHANGED <<script, selectedVoice, isSampling, history, sampleCall,
                   calls, handles, studioFrame>>

SampleSteps == SampleResolves \/ SampleRejects \/ PlaybackEnds \/ PlaybackFails

NextStudio ==
    \/ \E text \in Scripts : EditScript(text)
    \/ \E voice \in Voices : SelectVoice(voice)
    \/ \E voice \in Voices : ClickSample(voice)
    \/ SampleResolves
    \/ SampleRejects
    \/ PlaybackEnds
    \/ PlaybackFails
    \/ ClickGenerate
    \/ GenerateResolves
    \/ \E message \in ErrorMessages : GenerateRejects(message)

SpecStudio == InitStudio /\ [][NextStudio]_vars

\* C25 (as claimed): at most one generateSpeech call started by
\* SpeechGenerator is in flight: handleSampleListen and handleGenerate never
\* have calls pending at the same time.
C25_OneCallInFlight ==
    ~(sampleCall.state = "pending" /\ generateCall.state = "pending")

\* C26 (as claimed): once handleSampleListen has set isSampling and the
\* sample has come to its end, be it by the end of playback, by the failure
\* of the request or by the failure of playback, isSampling is null again.
C26_SamplingCleared ==
    (sampleCall.state \in {"ended", "rejected", "playFailed"}
        /\ ~ENABLED SampleSteps) =>
        isSampling = Null

AiStudioFunctions == {"hasSelectedApiKey", "openSelectKey"}

\* Lines 25-28: isValid.
EnvKeyValid(key) ==
    /\ key # NoKey
    /\ key # ""
    /\ key \notin PlaceholderKeys
    /\ key # "undefined"

\* Lines 66-133: the spinner while the key is checked, the key screen while
\* none is selected, else the layout with the generator view.
ViewsWhenSelected(checking, selected) == selected

Views(checking, selected) == ~checking /\ selected

InitApp ==
    /\ PcmIdle
    /\ apiKey \in ApiKeys
    /\ SpeechUnused
    /\ PairIdle
    /\ ServicesIdle
    /\ UiIdle
    /\ isCheckingKey = TRUE
    /\ isApiKeySelected = FALSE
    /\ mounted = FALSE
    /\ keyCheck = "start"
    /\ dialogs = 0
    /\ aistudio \in SUBSET AiStudioFunctions

\* What a step of App leaves alone.
appFrame ==
    <<pcmVars, apiKey, base64Audio, audioBytes, promise, handles, stages,
      callerVars, pair, serviceVars, uiVars, aistudio>>

\* Lines 16-31: checkApiKey, run by the effect of the first render, up to
\* its await or to the end of its try block.
CheckApiKey ==
    /\ keyCheck = "start"
    /\ IF "hasSelectedApiKey" \in aistudio
       THEN /\ keyCheck' = "awaitHasKey"
            /\ UNCHANGED isApiKeySelected
       ELSE /\ isApiKeySelected' = EnvKeyValid(apiKey)
            /\ keyCheck' = "finally"
    /\ mounted' = Views(isCheckingKey, isApiKeySelected')
    /\ UNCHANGED <<isCheckingKey, dialogs, requests, appFrame>>

\* Lines 20-21: hasSelectedApiKey resolves.
HasKeyResolves(hasKey) ==
    /\ keyCheck = "awaitHasKey"
    /\ isApiKeySelected' = hasKey
    /\ keyCheck' = "finally"
    /\ mounted' = Views(isCheckingKey, isApiKeySelected')
    /\ UNCHANGED <<isCheckingKey, dialogs, requests, appFrame>>

\* Lines 32-34: hasSelectedApiKey rejects.
HasKeyRejects ==
    /\ keyCheck = "awaitHasKey"
    /\ isApiKeySelected' = FALSE
    /\ keyCheck' = "finally"
    /\ mounted' = Views(isCheckingKey, isApiKeySelected')
    /\ UNCHANGED <<isCheckingKey, dialogs, requests, appFrame>>

\* Lines 35-37.
CheckFinally ==
    /\ keyCheck = "finally"
    /\ isCheckingKey' = FALSE
    /\ keyCheck' = "done"
    /\ mounted' = Views(isCheckingKey', isApiKeySelected)
    /\ UNCHANGED <<isApiKeySelected, dialogs, requests, appFrame>>

\* Lines 44-47: handleOpenApiKeyDialog up to its await; without
\* window.aistudio.openSelectKey it does nothing.
OpenDialog(pending) ==
    IF "openSelectKey" \in aistudio THEN pending + 1 ELSE pending

\* The button of the key screen (line 89) or the key button of the layout
\* (line 121).
ClickSelectKey ==
    /\ ~isCheckingKey
    /\ "openSelectKey" \in aistudio
    /\ dialogs < MaxDialogs
    /\ dialogs' = OpenDialog(dialogs)
    /\ UNCHANGED <<isCheckingKey, isApiKeySelected, mounted, keyCheck,
                   requests, appFrame>>

\* Lines 47-49: openSelectKey resolves.
DialogResolves ==
    /\ dialogs > 0
    /\ dialogs' = dialogs - 1
    /\ isApiKeySelected' = TRUE
    /\ mounted' = Views(isCheckingKey, isApiKeySelected')
    /\ UNCHANGED <<isCheckingKey, keyCheck, requests, appFrame>>

\* Lines 51-53: openSelectKey rejects.
DialogRejects ==
    /\ dialogs > 0
    /\ dialogs' = dialogs - 1
    /\ UNCHANGED <<isCheckingKey, isApiKeySelected, mounted, keyCheck,
                   requests, appFrame>>

\* A mounted generator view starts a request.
ViewRequest ==
    /\ mounted
    /\ requests < MaxCalls
    /\ requests' = requests + 1
    /\ UNCHANGED <<isCheckingKey, isApiKeySelected, mounted, keyCheck,
                   dialogs, appFrame>>

\* The request of a view ends: it succeeds, or it fails and the view calls
\* onApiError, lines 56-64, with an error that is key-related or not.
ViewRequestEnds(outcome) ==
    /\ requests > 0
    /\ requests' = requests - 1
    /\ IF outcome = "keyError"
       THEN /\ dialogs < MaxDialogs
            /\ isApiKeySelected' = FALSE
            /\ dialogs' = OpenDialog(dialogs)
       ELSE UNCHANGED <<isApiKeySelected, dialogs>>
    /\ mounted' = Views(isCheckingKey, isApiKeySelected')
    /\ UNCHANGED <<isCheckingKey, keyCheck, appFrame>>

NextApp ==
    \/ CheckApiKey
    \/ \E hasKey \in BOOLEAN : HasKeyResolves(hasKey)
    \/ HasKeyRejects
    \/ CheckFinally
    \/ ClickSelectKey
    \/ DialogResolves
    \/ DialogRejects
    \/ ViewRequest
    \/ \E outcome \in {"ok", "error", "keyError"} : ViewRequestEnds(outcome)

SpecApp == InitApp /\ [][NextApp]_vars

\* C30: the generator views are mounted only while isCheckingKey is false
\* and isApiKeySelected is true; a key-related error handed to handleApiError
\* sets isApiKeySelected to false; and once the key check is over
\* isApiKeySelected turns true only in the step in which a pending
\* openSelectKey call resolves.
C30_KeyGate ==
    /\ [](mounted => (~isCheckingKey /\ isApiKeySelected))
    /\ [][ViewRequestEnds("keyError") => ~isApiKeySelected']_vars
    /\ [][(~isCheckingKey /\ ~isApiKeySelected /\ isApiKeySelected') =>
             ("openSelectKey" \in aistudio /\ dialogs' = dialogs - 1)]_vars

C30_Witness ==
    /\ aistudio = {"openSelectKey"}
    /\ apiKey = "AIza-key"
    /\ ~isCheckingKey
    /\ ~isApiKeySelected
    /\ ~mounted
    /\ dialogs = 1
    /\ requests = 0

====
